---- MODULE Spec2Model ----
(***************************************************************************)
(* docs/qaoa/Routing-with-Tket.ipynb: routing a QAOA problem circuit onto  *)
(* a grid device with tket, keeping track of the qubit maps, followed by   *)
(* the "Deploy Docs" workflow that builds and deploys the documentation.   *)
(*                                                                         *)
(* A notebook run is the linear execution of the 21 code cells.  `cell`    *)
(* is the number of the last cell started, `error` the exception it        *)
(* raised ("none" when it completed).  Python lists are functions on       *)
(* 0..n-1, dicts are functions on their key set.                           *)
(***************************************************************************)
EXTENDS Integers, Sequences, FiniteSets, TLC

\* ------------------------------------------------------------------ bounds
\* number of cells of the two-row grid the device's qubits are taken from
GridSites == 4
\* number of logical qubits of the problem circuit (10 in the notebook)
NumLogical == 3
\* longest routed circuit (two-qubit operations) the routing pass returns
MaxOps == 2

\* first logical index: circuit_qubits = cirq.LineQubit.range(10, 20)
FirstLogical == 10

VARIABLES
    Sycamore23,          \* the device argument: its set of grid qubits
    cell,                \* number of the last code cell started (0: none)
    error,               \* exception raised by that cell, or "none"
    circuit_qubits,      \* list of the logical LineQubits
    dev_graph,           \* edges of the device's connectivity graph
    device,              \* alias of the device
    index_to_qubit,      \* list: device index -> GridQubit
    qubit_to_index,      \* dict: GridQubit -> device index
    tk_circuit,          \* qubits of the pytket circuit
    tk_device,           \* coupling (list of index pairs) of the Architecture
    unit,                \* the CompilationUnit: initial_map, final_map, circuit
    passLog,             \* passes applied to unit, in order
    valid,               \* unit.check_all_predicates()
    initial_map,         \* decoded initial map
    final_map,           \* decoded final map
    routed_circuit,      \* the routed circuit on GridQubits
    final_to_initial_map,
    initial_qubits,
    final_permutation,
    layout,              \* where each logical qubit sits after rcircuit_with_perm
    unitaryChecked,      \* the unitary comparison has been evaluated
    pushedBranch,        \* workflow: the branch of the push event
    stepOk,              \* workflow: whether each step would succeed
    ciStatus,            \* workflow: "idle", "running", "success", "failure"
    ciLog                \* workflow: the steps run so far, in order

nbVars == <<Sycamore23, cell, error, circuit_qubits, dev_graph, device,
            index_to_qubit, qubit_to_index, tk_circuit, tk_device, unit,
            passLog, valid, initial_map, final_map, routed_circuit,
            final_to_initial_map, initial_qubits, final_permutation, layout,
            unitaryChecked>>
ciVars == <<pushedBranch, stepOk, ciStatus, ciLog>>
vars == <<nbVars, ciVars>>

\* ------------------------------------------------------------ value types
GridQubit(r, c) == [row |-> r, col |-> c]
LineQubit(i) == [x |-> i]
\* a pytket unit id: register name and index tuple
TkQubit(i) == [reg |-> "q", index |-> <<i>>]
TkNode(i) == [reg |-> "node", index |-> <<i>>]

Grid == {GridQubit(r, c) : r \in 0..1, c \in 0..(GridSites - 1)}
Devices == SUBSET {q \in Grid : 2 * q.col + q.row < GridSites}

Range(f) == {f[i] : i \in DOMAIN f}
Injective(f) == \A a, b \in DOMAIN f : f[a] = f[b] => a = b
Abs(n) == IF n < 0 THEN -n ELSE n

\* GridQubit ordering: by (row, col)
QubitLess(a, b) == a.row < b.row \/ (a.row = b.row /\ a.col < b.col)

\* sorted(S) as a list
sorted(S) ==
    [i \in 0..(Cardinality(S) - 1) |->
        CHOOSE q \in S : Cardinality({p \in S : QubitLess(p, q)}) = i]

\* mutant of enumerate_dict: the enumeration starts at 1
enumerate_dict_from1(list) ==
    [q \in Range(list) |-> 1 + (CHOOSE i \in DOMAIN list :
        list[i] = q /\ \A j \in DOMAIN list : list[j] = q => j <= i)]

\* {q: i for i, q in enumerate(list)}
enumerate_dict(list) ==
    [q \in Range(list) |-> CHOOSE i \in DOMAIN list :
        list[i] = q /\ \A j \in DOMAIN list : list[j] = q => j <= i]

\* len(list)
len(list) == Cardinality(DOMAIN list)

\* list.index(v)
ListIndex(list, v) ==
    CHOOSE i \in DOMAIN list : list[i] = v /\ \A j \in DOMAIN list : list[j] = v => i <= j

\* GridQubit.is_adjacent
is_adjacent(a, b) == Abs(a.row - b.row) + Abs(a.col - b.col) = 1

\* ccr.xmon_device_to_graph(device).edges: pairs of device qubits at distance 1
xmon_device_to_graph(dev) ==
    {e \in dev \X dev : QubitLess(e[1], e[2]) /\ is_adjacent(e[1], e[2])}

\* mutant of qubit_index_edges: both ends looked up from n1
qubit_index_edges_n1(edges, q2i) ==
    {<<q2i[e[1]], q2i[e[1]]>> : e \in edges}

\* _qubit_index_edges(): one index pair per edge of the device graph
qubit_index_edges(edges, q2i) ==
    {<<q2i[e[1]], q2i[e[2]]>> : e \in edges}

\* nodes of a pytket Architecture built from a list of index pairs
ArchNodes(coupling) == {e[1] : e \in coupling} \cup {e[2] : e \in coupling}
\* the connectivity is undirected
Coupled(coupling, i, j) == <<i, j>> \in coupling \/ <<j, i>> \in coupling

tk_to_i(tk) == tk.index[1]


\* -------------------------------------------------- the compilation unit
CircuitQubits == [k \in 0..(NumLogical - 1) |-> LineQubit(FirstLogical + k)]

\* pytket.cirq.cirq_to_tk: a LineQubit(x) becomes the unit id q[x]
cirq_to_tk(qubits) == {TkQubit(q.x) : q \in Range(qubits)}

GateKinds == {"SWAP", "ZZ"}
TwoQubitOp(g, a, b) == [gate |-> g, qubits |-> <<a, b>>]

BoundedSeq(S, n) == UNION {[1..k -> S] : k \in 0..n}

\* PlacementPass(GraphPlacement(tk_device)): an injective assignment of the
\* circuit's qubits to nodes of the architecture
Placements(qubits, coupling) ==
    {f \in [qubits -> {TkNode(i) : i \in ArchNodes(coupling)}] : Injective(f)}

\* RoutingPass(tk_device): a circuit of two-qubit operations on device
\* indices; the connectivity predicate decides afterwards whether it is routed
RoutedCircuits(n) ==
    BoundedSeq({TwoQubitOp(g, TkNode(e[1]), TkNode(e[2])) :
                    g \in GateKinds,
                    e \in {p \in (0..(n - 1)) \X (0..(n - 1)) : p[1] < p[2]}},
               MaxOps)

\* the unit's bookkeeping of one operation: a SWAP exchanges the qubits
\* held by its two nodes
MoveBy(op, node) ==
    IF op.gate # "SWAP" THEN node
    ELSE IF node = op.qubits[1] THEN op.qubits[2]
    ELSE IF node = op.qubits[2] THEN op.qubits[1]
    ELSE node

RECURSIVE FinalMapOf(_, _)
FinalMapOf(map, ops) ==
    IF ops = << >> THEN map
    ELSE FinalMapOf([q \in DOMAIN map |-> MoveBy(Head(ops), map[q])], Tail(ops))

\* ConnectivityPredicate(tk_device) on a circuit
check_all_predicates(circ, coupling) ==
    \A k \in DOMAIN circ :
        Coupled(coupling, tk_to_i(circ[k].qubits[1]), tk_to_i(circ[k].qubits[2]))

\* {cirq.LineQubit(tk_to_i(n1)): index_to_qubit[tk_to_i(n2)] for n1, n2 in m.items()}
DecodeMap(m, i2q) ==
    [lq \in {LineQubit(tk_to_i(n1)) : n1 \in DOMAIN m} |->
        i2q[tk_to_i(m[CHOOSE n1 \in DOMAIN m : LineQubit(tk_to_i(n1)) = lq])]]

\* pytket.cirq.tk_to_cirq: the node with index i becomes LineQubit(i)
tk_to_cirq(circ) ==
    [k \in DOMAIN circ |->
        TwoQubitOp(circ[k].gate, LineQubit(tk_to_i(circ[k].qubits[1])),
                   LineQubit(tk_to_i(circ[k].qubits[2])))]

\* mutant of transform_qubits: the index list is read from its other end
transform_qubits_reversed(circ, i2q) ==
    [k \in DOMAIN circ |->
        TwoQubitOp(circ[k].gate, i2q[len(i2q) - 1 - circ[k].qubits[1].x],
                   i2q[circ[k].qubits[2].x])]

\* circuit.transform_qubits(lambda q: index_to_qubit[q.x])
transform_qubits(circ, i2q) ==
    [k \in DOMAIN circ |->
        TwoQubitOp(circ[k].gate, i2q[circ[k].qubits[1].x], i2q[circ[k].qubits[2].x])]

\* the adjacency loop over the two-qubit operations
AllAdjacent(circ) ==
    \A k \in DOMAIN circ : is_adjacent(circ[k].qubits[1], circ[k].qubits[2])

\* mutant of FinalToInitial: {initial_map[cq]: final_map[cq] ...}
InitialToFinal(fmap, imap, cqs) ==
    [q \in {imap[cq] : cq \in Range(cqs)} |->
        fmap[CHOOSE cq \in Range(cqs) : imap[cq] = q]]

\* {final_map[cq]: initial_map[cq] for cq in circuit_qubits}
FinalToInitial(fmap, imap, cqs) ==
    [q \in {fmap[cq] : cq \in Range(cqs)} |->
        imap[CHOOSE cq \in Range(cqs) : fmap[cq] = q]]

\* cca.LinearPermutationGate(permutation).on(*qubits): what sits on
\* qubits[i] is moved to qubits[permutation[i]]
permute_gate(qubits, permutation, where) ==
    [cq \in DOMAIN where |->
        IF where[cq] \in Range(qubits)
        THEN qubits[permutation[ListIndex(qubits, where[cq])]]
        ELSE where[cq]]


\* ------------------------------------------------------- the notebook run
LastCell == 21
\* cells that only import, draw or display
DisplayCells == {1, 2, 4, 9, 10, 11, 13, 15, 17, 19}

Steps == <<"checkout", "Set up GCloud", "Set up Python", "Install dependencies",
           "Build documentation", "Deploy">>
Branches == {"master", "feature"}

NotebookUnrun ==
    /\ cell = 0
    /\ error = "none"
    /\ circuit_qubits = << >>
    /\ dev_graph = {}
    /\ device = {}
    /\ index_to_qubit = << >>
    /\ qubit_to_index = << >>
    /\ tk_circuit = {}
    /\ tk_device = {}
    /\ unit = [initial_map |-> << >>, final_map |-> << >>, circuit |-> << >>]
    /\ passLog = << >>
    /\ valid = FALSE
    /\ initial_map = << >>
    /\ final_map = << >>
    /\ routed_circuit = << >>
    /\ final_to_initial_map = << >>
    /\ initial_qubits = << >>
    /\ final_permutation = << >>
    /\ layout = << >>
    /\ unitaryChecked = FALSE

WorkflowIdle ==
    /\ pushedBranch = "master"
    /\ stepOk = [k \in DOMAIN Steps |-> TRUE]
    /\ ciStatus = "idle"
    /\ ciLog = << >>

\* a notebook run on any device of the grid; no workflow run
Init == Sycamore23 \in Devices /\ NotebookUnrun /\ WorkflowIdle

\* a cell runs when the one before it completed
Starts(c) == error = "none" /\ cell = c - 1 /\ cell' = c

DisplayCell ==
    /\ (cell + 1) \in DisplayCells
    /\ Starts(cell + 1)
    /\ UNCHANGED <<Sycamore23, error, circuit_qubits, dev_graph, device,
                   index_to_qubit, qubit_to_index, tk_circuit, tk_device, unit,
                   passLog, valid, initial_map, final_map, routed_circuit,
                   final_to_initial_map, initial_qubits, final_permutation,
                   layout, unitaryChecked, ciVars>>

ExampleCircuitCell ==
    /\ Starts(3)
    /\ circuit_qubits' = CircuitQubits
    /\ UNCHANGED <<Sycamore23, error, dev_graph, device,
                   index_to_qubit, qubit_to_index, tk_circuit, tk_device, unit,
                   passLog, valid, initial_map, final_map, routed_circuit,
                   final_to_initial_map, initial_qubits, final_permutation,
                   layout, unitaryChecked, ciVars>>

DeviceGraphCell ==
    /\ Starts(5)
    /\ dev_graph' = xmon_device_to_graph(Sycamore23)
    /\ UNCHANGED <<Sycamore23, error, circuit_qubits, device,
                   index_to_qubit, qubit_to_index, tk_circuit, tk_device, unit,
                   passLog, valid, initial_map, final_map, routed_circuit,
                   final_to_initial_map, initial_qubits, final_permutation,
                   layout, unitaryChecked, ciVars>>

DeviceAliasCell ==
    /\ Starts(6)
    /\ device' = Sycamore23
    /\ UNCHANGED <<Sycamore23, error, circuit_qubits, dev_graph,
                   index_to_qubit, qubit_to_index, tk_circuit, tk_device, unit,
                   passLog, valid, initial_map, final_map, routed_circuit,
                   final_to_initial_map, initial_qubits, final_permutation,
                   layout, unitaryChecked, ciVars>>

IndexCell ==
    /\ Starts(7)
    /\ index_to_qubit' = sorted(device)
    /\ qubit_to_index' = enumerate_dict(index_to_qubit')
    /\ UNCHANGED <<Sycamore23, error, circuit_qubits, dev_graph, device,
                   tk_circuit, tk_device, unit,
                   passLog, valid, initial_map, final_map, routed_circuit,
                   final_to_initial_map, initial_qubits, final_permutation,
                   layout, unitaryChecked, ciVars>>

TketDeviceCell ==
    /\ Starts(8)
    /\ tk_circuit' = cirq_to_tk(circuit_qubits)
    /\ tk_device' = qubit_index_edges(xmon_device_to_graph(device), qubit_to_index)
    /\ UNCHANGED <<Sycamore23, error, circuit_qubits, dev_graph, device,
                   index_to_qubit, qubit_to_index, unit,
                   passLog, valid, initial_map, final_map, routed_circuit,
                   final_to_initial_map, initial_qubits, final_permutation,
                   layout, unitaryChecked, ciVars>>

\* mutant of PlaceRouteCell: the cell without its `assert valid`
PlaceRouteCellNoAssert ==
    /\ Starts(12)
    /\ \E placement \in Placements(tk_circuit, tk_device),
          circ \in RoutedCircuits(len(index_to_qubit)) :
            /\ unit' = [initial_map |-> placement,
                        final_map |-> FinalMapOf(placement, circ),
                        circuit |-> circ]
            /\ passLog' = <<"PlacementPass", "RoutingPass">>
            /\ valid' = check_all_predicates(circ, tk_device)
            /\ error' = "none"
    /\ UNCHANGED <<Sycamore23, circuit_qubits, dev_graph, device,
                   index_to_qubit, qubit_to_index, tk_circuit, tk_device,
                   initial_map, final_map, routed_circuit,
                   final_to_initial_map, initial_qubits, final_permutation,
                   layout, unitaryChecked, ciVars>>

\* mutant of PlaceRouteCell: SequencePass([RoutingPass, PlacementPass])
PlaceRouteCellRoutingFirst ==
    /\ Starts(12)
    /\ \E placement \in Placements(tk_circuit, tk_device),
          circ \in RoutedCircuits(len(index_to_qubit)) :
            /\ unit' = [initial_map |-> placement,
                        final_map |-> FinalMapOf(placement, circ),
                        circuit |-> circ]
            /\ passLog' = <<"RoutingPass", "PlacementPass">>
            /\ valid' = check_all_predicates(circ, tk_device)
            /\ error' = IF valid' THEN "none" ELSE "AssertionError"
    /\ UNCHANGED <<Sycamore23, circuit_qubits, dev_graph, device,
                   index_to_qubit, qubit_to_index, tk_circuit, tk_device,
                   initial_map, final_map, routed_circuit,
                   final_to_initial_map, initial_qubits, final_permutation,
                   layout, unitaryChecked, ciVars>>

\* unit = CompilationUnit(...); passes.apply(unit); assert valid
PlaceRouteCell ==
    /\ Starts(12)
    /\ IF Placements(tk_circuit, tk_device) = {}
       THEN /\ error' = "RuntimeError"
            /\ UNCHANGED <<unit, passLog, valid>>
       ELSE \E placement \in Placements(tk_circuit, tk_device),
               circ \in RoutedCircuits(len(index_to_qubit)) :
                /\ unit' = [initial_map |-> placement,
                            final_map |-> FinalMapOf(placement, circ),
                            circuit |-> circ]
                /\ passLog' = <<"PlacementPass", "RoutingPass">>
                /\ valid' = check_all_predicates(circ, tk_device)
                /\ error' = IF valid' THEN "none" ELSE "AssertionError"
    /\ UNCHANGED <<Sycamore23, circuit_qubits, dev_graph, device,
                   index_to_qubit, qubit_to_index, tk_circuit, tk_device,
                   initial_map, final_map, routed_circuit,
                   final_to_initial_map, initial_qubits, final_permutation,
                   layout, unitaryChecked, ciVars>>

DecodeInitialCell ==
    /\ Starts(14)
    /\ initial_map' = DecodeMap(unit.initial_map, index_to_qubit)
    /\ UNCHANGED <<Sycamore23, error, circuit_qubits, dev_graph, device,
                   index_to_qubit, qubit_to_index, tk_circuit, tk_device, unit,
                   passLog, valid, final_map, routed_circuit,
                   final_to_initial_map, initial_qubits, final_permutation,
                   layout, unitaryChecked, ciVars>>

\* mutant of DecodeFinalCell: the comprehension still reads unit.initial_map
DecodeFinalCellFromInitial ==
    /\ Starts(16)
    /\ final_map' = DecodeMap(unit.initial_map, index_to_qubit)
    /\ UNCHANGED <<Sycamore23, error, circuit_qubits, dev_graph, device,
                   index_to_qubit, qubit_to_index, tk_circuit, tk_device, unit,
                   passLog, valid, initial_map, routed_circuit,
                   final_to_initial_map, initial_qubits, final_permutation,
                   layout, unitaryChecked, ciVars>>

DecodeFinalCell ==
    /\ Starts(16)
    /\ final_map' = DecodeMap(unit.final_map, index_to_qubit)
    /\ UNCHANGED <<Sycamore23, error, circuit_qubits, dev_graph, device,
                   index_to_qubit, qubit_to_index, tk_circuit, tk_device, unit,
                   passLog, valid, initial_map, routed_circuit,
                   final_to_initial_map, initial_qubits, final_permutation,
                   layout, unitaryChecked, ciVars>>

RoutedCircuitCell ==
    /\ Starts(18)
    /\ routed_circuit' = transform_qubits(tk_to_cirq(unit.circuit), index_to_qubit)
    /\ UNCHANGED <<Sycamore23, error, circuit_qubits, dev_graph, device,
                   index_to_qubit, qubit_to_index, tk_circuit, tk_device, unit,
                   passLog, valid, initial_map, final_map,
                   final_to_initial_map, initial_qubits, final_permutation,
                   layout, unitaryChecked, ciVars>>

AdjacencyCell ==
    /\ Starts(20)
    /\ error' = IF AllAdjacent(routed_circuit) THEN "none" ELSE "AssertionError"
    /\ UNCHANGED <<Sycamore23, circuit_qubits, dev_graph, device,
                   index_to_qubit, qubit_to_index, tk_circuit, tk_device, unit,
                   passLog, valid, initial_map, final_map, routed_circuit,
                   final_to_initial_map, initial_qubits, final_permutation,
                   layout, unitaryChecked, ciVars>>

\* final_permutation, rcircuit_with_perm and the unitary comparison.  The
\* list comprehension of final_permutation raises KeyError at an initial
\* qubit that is no key of final_to_initial_map, and ValueError at a value
\* that list.index does not find.  The numerical outcome of the comparison
\* of the two unitaries is not part of the state.
PermutationCell ==
    /\ Starts(21)
    /\ final_to_initial_map' = FinalToInitial(final_map, initial_map, circuit_qubits)
    /\ initial_qubits' = [k \in DOMAIN circuit_qubits |-> initial_map[circuit_qubits[k]]]
    /\ IF ~(Range(initial_qubits') \subseteq DOMAIN final_to_initial_map')
       THEN /\ error' = "KeyError"
            /\ UNCHANGED <<final_permutation, layout, unitaryChecked>>
       ELSE IF ~(Range(final_to_initial_map') \subseteq Range(initial_qubits'))
       THEN /\ error' = "ValueError"
            /\ UNCHANGED <<final_permutation, layout, unitaryChecked>>
       ELSE /\ final_permutation' =
                    [k \in DOMAIN initial_qubits' |->
                        ListIndex(initial_qubits', final_to_initial_map'[initial_qubits'[k]])]
            /\ layout' = permute_gate(initial_qubits', final_permutation', final_map)
            /\ unitaryChecked' = TRUE
            /\ error' = "none"
    /\ UNCHANGED <<Sycamore23, circuit_qubits, dev_graph, device,
                   index_to_qubit, qubit_to_index, tk_circuit, tk_device, unit,
                   passLog, valid, initial_map, final_map, routed_circuit, ciVars>>

Next ==
    \/ DisplayCell
    \/ ExampleCircuitCell
    \/ DeviceGraphCell
    \/ DeviceAliasCell
    \/ IndexCell
    \/ TketDeviceCell
    \/ PlaceRouteCell
    \/ DecodeInitialCell
    \/ DecodeFinalCell
    \/ RoutedCircuitCell
    \/ AdjacencyCell
    \/ PermutationCell

Spec == Init /\ [][Next]_vars


\* ------------------------------------------------ the Deploy Docs workflow
\* on: push: branches: master
Push ==
    /\ ciStatus = "idle"
    /\ pushedBranch = "master"
    /\ ciStatus' = "running"
    /\ UNCHANGED <<pushedBranch, stepOk, ciLog, nbVars>>

\* mutant of RunStep: every step has continue-on-error
RunStepContinueOnError ==
    /\ ciStatus = "running"
    /\ Len(ciLog) < Len(Steps)
    /\ LET k == Len(ciLog) + 1 IN
        /\ ciLog' = Append(ciLog, Steps[k])
        /\ ciStatus' = IF k = Len(Steps) THEN "success" ELSE "running"
    /\ UNCHANGED <<pushedBranch, stepOk, nbVars>>

\* the runner takes the next step of the job; a failed step fails the job
\* and the steps after it are skipped
RunStep ==
    /\ ciStatus = "running"
    /\ Len(ciLog) < Len(Steps)
    /\ LET k == Len(ciLog) + 1 IN
        /\ ciLog' = Append(ciLog, Steps[k])
        /\ ciStatus' = IF ~stepOk[k] THEN "failure"
                       ELSE IF k = Len(Steps) THEN "success"
                       ELSE "running"
    /\ UNCHANGED <<pushedBranch, stepOk, nbVars>>

\* a push to some branch, with any outcome of each step; the notebook is not run
InitCI ==
    /\ Sycamore23 = {}
    /\ NotebookUnrun
    /\ pushedBranch \in Branches
    /\ stepOk \in [DOMAIN Steps -> BOOLEAN]
    /\ ciStatus = "idle"
    /\ ciLog = << >>

NextCI == Push \/ RunStep

SpecCI == InitCI /\ [][NextCI]_vars


\* ------------------------------------------------------------- properties
DeviceEdge(a, b) == <<a, b>> \in dev_graph \/ <<b, a>> \in dev_graph
IsPermutation(f, n) == DOMAIN f = 0..(n - 1) /\ Range(f) = 0..(n - 1)
SwapsOf(circ) == {k \in DOMAIN circ : circ[k].gate = "SWAP"}

\* C1: once routed_circuit is built from a unit that passed the connectivity
\* predicate, each of its two-qubit operations acts on two device qubits
\* that are adjacent on the grid and joined by an edge of the device graph.
C1_RoutedOpsAdjacent ==
    (cell >= 18 /\ valid) =>
        \A k \in DOMAIN routed_circuit :
            LET a == routed_circuit[k].qubits[1]
                b == routed_circuit[k].qubits[2]
            IN  /\ a \in device
                /\ b \in device
                /\ is_adjacent(a, b)
                /\ DeviceEdge(a, b)

\* a completed run whose routed circuit holds a swap and a problem gate
C1_Witness ==
    /\ cell = LastCell
    /\ error = "none"
    /\ SwapsOf(routed_circuit) # {}
    /\ SwapsOf(routed_circuit) # DOMAIN routed_circuit

\* C3: index_to_qubit and qubit_to_index are inverse bijections between the
\* device's qubits and 0..n-1, n the number of device qubits.
C3_IndexBijection ==
    cell >= 7 =>
        LET n == Cardinality(device) IN
        /\ DOMAIN index_to_qubit = 0..(n - 1)
        /\ DOMAIN qubit_to_index = device
        /\ \A i \in 0..(n - 1) : qubit_to_index[index_to_qubit[i]] = i
        /\ \A q \in device : index_to_qubit[qubit_to_index[q]] = q
        /\ {qubit_to_index[q] : q \in device} = 0..(n - 1)
        /\ Injective(index_to_qubit)
        /\ Injective(qubit_to_index)

\* the lookup of a device with qubits in both rows, where the sorted order
\* is not the order of the columns
C3_Witness ==
    /\ cell = 7
    /\ GridQubit(0, 1) \in device
    /\ GridQubit(1, 0) \in device
    /\ qubit_to_index[GridQubit(0, 1)] < qubit_to_index[GridQubit(1, 0)]

\* cells after the predicate check run only with the predicate passed, and
\* the unitary comparison is reached only with the predicate and the
\* adjacency check passed; an AssertionError comes from a failed check
C4_StateInv ==
    /\ cell >= 13 => valid
    /\ cell >= LastCell => (valid /\ AllAdjacent(routed_circuit))
    /\ unitaryChecked => (valid /\ AllAdjacent(routed_circuit) /\ cell = LastCell)
    /\ error = "AssertionError" => \/ (cell = 12 /\ ~valid)
                                   \/ (cell = 20 /\ ~AllAdjacent(routed_circuit))

\* C4: an assertion that fails halts the run (no step is taken from a state
\* with an exception) and C4_StateInv holds throughout.
C4_AssertionHalts == [](C4_StateInv) /\ [][error = "none"]_vars

\* the predicate check failed and the run stopped in its cell
C4_Witness ==
    /\ cell = 12
    /\ error = "AssertionError"
    /\ ~valid
    /\ ~unitaryChecked

\* C5: the workflow runs on a push to master only; the steps run in the
\* listed order, each one only if every step before it succeeded, so Deploy
\* runs only after a successful documentation build.
C5_StepsInOrder ==
    /\ ciStatus # "idle" => pushedBranch = "master"
    /\ Len(ciLog) <= Len(Steps)
    /\ \A k \in DOMAIN ciLog :
        /\ ciLog[k] = Steps[k]
        /\ \A j \in 1..(k - 1) : stepOk[j]
    /\ ciStatus = "success" => (ciLog = Steps /\ \A j \in DOMAIN Steps : stepOk[j])
    /\ ciStatus = "failure" => (ciLog # << >> /\ ~stepOk[Len(ciLog)])

\* the documentation build failed and Deploy was not run
C5_Witness ==
    /\ ciStatus = "failure"
    /\ Len(ciLog) = 5
    /\ ciLog[5] = "Build documentation"

\* the passes are applied once, placement before routing, and what is read
\* from the unit is read after that, with the predicate passed
C6_StateInv ==
    /\ passLog \in {<< >>, <<"PlacementPass", "RoutingPass">>}
    /\ cell < 12 => (passLog = << >> /\ unit.initial_map = << >> /\ unit.circuit = << >>)
    /\ cell >= 13 => (passLog = <<"PlacementPass", "RoutingPass">> /\ valid)
    /\ initial_map # << >> => cell >= 14
    /\ final_map # << >> => cell >= 16
    /\ routed_circuit # << >> => cell >= 18

\* C6: the passes are applied once, in cell 12, placement before routing;
\* the cells that read the unit run after that with the predicate passed;
\* each step of the run starts the next cell, so none is repeated.
C6_LinearRun ==
    /\ [](C6_StateInv)
    /\ [][cell' = cell + 1 /\ (passLog' # passLog => cell' = 12)]_vars

\* the maps and the routed circuit have been read from the unit
C6_Witness ==
    /\ cell = 18
    /\ error = "none"
    /\ routed_circuit # << >>
    /\ initial_map # final_map

\* C7: once final_permutation is built, it sends the position of
\* final_map[cq] to the position of initial_map[cq] for every logical qubit,
\* and after the permutation gate every logical qubit sits on its initial
\* device qubit: position k of initial_qubits carries circuit_qubits[k].
C7_PermutationRestores ==
    (cell = LastCell /\ error = "none") =>
        /\ IsPermutation(final_permutation, len(circuit_qubits))
        /\ \A cq \in Range(circuit_qubits) :
            /\ final_map[cq] \in Range(initial_qubits)
            /\ final_permutation[ListIndex(initial_qubits, final_map[cq])]
                    = ListIndex(initial_qubits, initial_map[cq])
            /\ layout[cq] = initial_map[cq]
        /\ \A k \in DOMAIN circuit_qubits : layout[circuit_qubits[k]] = initial_qubits[k]

\* the routing rotated three logical qubits: the permutation has no fixed
\* point and is not its own inverse
C7_Witness ==
    /\ cell = LastCell
    /\ error = "none"
    /\ \E k \in DOMAIN final_permutation :
        /\ final_permutation[k] # k
        /\ final_permutation[final_permutation[k]] # k

\* C8: the decoded maps hold, for every entry n1 -> n2 of the unit's map,
\* LineQubit(index of n1) -> index_to_qubit[index of n2], with as many
\* entries as the unit's map, injectively, and every logical qubit as a key.
Decodes(decoded, m) ==
    /\ \A n1 \in DOMAIN m :
        /\ LineQubit(tk_to_i(n1)) \in DOMAIN decoded
        /\ decoded[LineQubit(tk_to_i(n1))] = index_to_qubit[tk_to_i(m[n1])]
    /\ Cardinality(DOMAIN decoded) = Cardinality(DOMAIN m)
    /\ Injective(decoded)
    /\ Range(circuit_qubits) \subseteq DOMAIN decoded

C8_DecodedMapsFaithful ==
    /\ cell >= 14 => Decodes(initial_map, unit.initial_map)
    /\ cell >= 16 => Decodes(final_map, unit.final_map)

\* both maps are decoded and the routing moved a logical qubit
C8_Witness ==
    /\ cell >= 16
    /\ \E cq \in Range(circuit_qubits) : final_map[cq] # initial_map[cq]
    /\ \E cq \in Range(circuit_qubits) : final_map[cq] = initial_map[cq]

\* C9: the coupling holds one index pair per edge of the device graph, the
\* pair of the indices of its ends; every node of the graph has an index;
\* two indices are coupled iff their qubits are joined in the device graph.
C9_CouplingIsDeviceGraph ==
    cell >= 8 =>
        /\ \A e \in dev_graph :
            /\ e[1] \in DOMAIN qubit_to_index
            /\ e[2] \in DOMAIN qubit_to_index
            /\ <<qubit_to_index[e[1]], qubit_to_index[e[2]]>> \in tk_device
        /\ Cardinality(tk_device) = Cardinality(dev_graph)
        /\ \A i, j \in DOMAIN index_to_qubit :
            Coupled(tk_device, i, j) <=> DeviceEdge(index_to_qubit[i], index_to_qubit[j])

\* a device with coupled pairs and a pair of its qubits that is not coupled
C9_Witness ==
    /\ cell = 8
    /\ Cardinality(tk_device) >= 2
    /\ \E i, j \in ArchNodes(tk_device) : i # j /\ ~Coupled(tk_device, i, j)

\* C10: for every routing outcome the construction of final_permutation is
\* defined: every device qubit of initial_qubits is a key of
\* final_to_initial_map (the final device qubits of the logical qubits are
\* their initial device qubits), no lookup fails, and the result is a
\* permutation of the positions.
C10_PermutationAlwaysDefined ==
    cell = LastCell =>
        /\ Range(initial_qubits) \subseteq DOMAIN final_to_initial_map
        /\ {final_map[cq] : cq \in Range(circuit_qubits)}
                = {initial_map[cq] : cq \in Range(circuit_qubits)}
        /\ error = "none"
        /\ IsPermutation(final_permutation, len(circuit_qubits))

====
